---------------------------- MODULE Spec2Model ----------------------------
(***************************************************************************)
(* Model of the seesaw I2C driver (libraries/Adafruit_Seesaw/              *)
(* Adafruit_seesaw.cpp): the register access protocol (read / write /      *)
(* writeEmpty) and the peripheral operations built on it, run against a    *)
(* recording transport and a simulated seesaw device.                      *)
(*                                                                         *)
(* The driver is single threaded and synchronous, so every public          *)
(* operation is one action.  An operation is an operator from a handle     *)
(* record h to the handle record after the call; h carries the driver's    *)
(* fields (i2caddr, sercom_inten), the transport (bus = the transactions   *)
(* and delays of the call, rx = the receive buffer of Wire), the simulated *)
(* device (dev) and the locals a call hands back (val, buf, pos).          *)
(*                                                                         *)
(* 32-bit pin masks are sets of bit positions (a subset of 0..31): bit i   *)
(* of the mask is set iff i is in the set.  Bytes are integers 0..255.     *)
(***************************************************************************)
EXTENDS Integers, Sequences, FiniteSets, TLC

VARIABLES
    i2caddr,       \* _i2caddr: the handle's target address
    sercom_inten,  \* _sercom_inten: cached SERCOM interrupt-enable mask
    dev,           \* the simulated device
    bus,           \* transport record of the last operation
    op,            \* the last operation and its arguments
    prev,          \* the operation before it (kept for digitalWriteBulk only)
    ret,           \* integer result of the last operation (bool as 0/1)
    retmask,       \* 32-bit result of the last operation, as a set of bits
    rbuf,          \* the caller's buffer after the last read
    calls,         \* the write / read calls the last operation made
    outcome,       \* how the last operation ended for its caller
    lastmode       \* per pin: the mode of the last pinMode / pinModeBulk call
                   \* that named it, "unconfigured" when there was none

vars == <<i2caddr, sercom_inten, dev, bus, op, prev, ret, retmask, rbuf, calls,
          outcome, lastmode>>

---------------------------------------------------------------------------
(* Register map and board constants: Adafruit_seesaw.h (module base bytes, *)
(* function bytes, pin numbers) and the Arduino core (pin modes).          *)

SEESAW_STATUS_BASE == 0
SEESAW_GPIO_BASE == 1
SEESAW_SERCOM0_BASE == 2
SEESAW_TIMER_BASE == 8
SEESAW_ADC_BASE == 9
SEESAW_EEPROM_BASE == 13

SEESAW_STATUS_HW_ID == 1
SEESAW_STATUS_VERSION == 2
SEESAW_STATUS_OPTIONS == 3
SEESAW_STATUS_SWRST == 127

SEESAW_GPIO_DIRSET_BULK == 2
SEESAW_GPIO_DIRCLR_BULK == 3
SEESAW_GPIO_BULK == 4
SEESAW_GPIO_BULK_SET == 5
SEESAW_GPIO_BULK_CLR == 6
SEESAW_GPIO_INTENSET == 8
SEESAW_GPIO_INTENCLR == 9
SEESAW_GPIO_PULLENSET == 11

SEESAW_TIMER_PWM == 1
SEESAW_TIMER_FREQ == 2

SEESAW_ADC_CHANNEL_OFFSET == 7

SEESAW_SERCOM_INTEN == 2
SEESAW_SERCOM_BAUD == 4
SEESAW_SERCOM_DATA == 5

SEESAW_EEPROM_I2C_ADDR == 63

SEESAW_HW_ID_CODE == 85

ADC_INPUT_0_PIN == 2
ADC_INPUT_1_PIN == 3
ADC_INPUT_2_PIN == 4
ADC_INPUT_3_PIN == 5

PWM_0_PIN == 4
PWM_1_PIN == 5
PWM_2_PIN == 6
PWM_3_PIN == 7

INPUT == 0
OUTPUT == 1
INPUT_PULLUP == 2

(* Literals of Adafruit_seesaw.cpp. *)
CHUNK == 32              \* min(32, num - pos)
RESET_VALUE == 255       \* write8(..., SEESAW_STATUS_SWRST, 0xFF)
BEGIN_DELAY_MS == 500    \* delay(500) in begin
ADDR_DELAY_MS == 250     \* delay(250) in setI2CAddr
ADC_DELAY_US == 500      \* read(..., buf, 2, 500) in analogRead
ADC_DELAY_MS == 1        \* delay(1) in analogRead
UINT8_MAX == 255         \* uint8_t parameters and counters
UINT16_MAX == 65535      \* uint16_t parameters

---------------------------------------------------------------------------
(* Fixed-width arithmetic and pin masks.                                   *)

U8(x) == x % 256
U16(x) == x % 65536
Min(a, b) == IF a < b THEN a ELSE b

\* (uint8_t)(pins >> (24 - 8*k)): byte k (0 = most significant) of a mask.
MaskByte(pins, k) ==
    LET base == 8 * (3 - k)
        bit(i) == IF (base + i) \in pins THEN 2^i ELSE 0
    IN  bit(0) + bit(1) + bit(2) + bit(3) + bit(4) + bit(5) + bit(6) + bit(7)

\* The mask bytes least significant first.
MaskBytes_littleEndian(pins) ==
    <<MaskByte(pins, 3), MaskByte(pins, 2), MaskByte(pins, 1), MaskByte(pins, 0)>>

\* uint8_t cmd[] = { pins >> 24, pins >> 16, pins >> 8, pins }
MaskBytes(pins) ==
    <<MaskByte(pins, 0), MaskByte(pins, 1), MaskByte(pins, 2), MaskByte(pins, 3)>>

\* ((uint32_t)b << shift): the bits of byte b moved up by shift.
ShiftByte(b, shift) == {shift + i : i \in {j \in 0..7 : (b \div 2^j) % 2 = 1}}

\* (buf[0] << 24) | (buf[1] << 16) | (buf[2] << 8) | buf[3]
Assemble32(b) ==
    ShiftByte(b[1], 24) \cup ShiftByte(b[2], 16) \cup ShiftByte(b[3], 8)
        \cup ShiftByte(b[4], 0)

---------------------------------------------------------------------------
(* The transport (Wire) and the simulated device.                          *)

\* Entries of the transport record.
WEvent(addr, bytes) == [k |-> "W", addr |-> addr, n |-> Len(bytes), bytes |-> bytes]
REvent(addr, n, got) == [k |-> "R", addr |-> addr, n |-> n, bytes |-> got]
DEvent(ms) == [k |-> "D", addr |-> 0, n |-> ms, bytes |-> <<>>]
UEvent(us) == [k |-> "U", addr |-> 0, n |-> us, bytes |-> <<>>]
IEvent == [k |-> "I", addr |-> 0, n |-> 0, bytes |-> <<>>]
\* A write transaction the device did not acknowledge.
NEvent(addr, bytes) == [k |-> "N", addr |-> addr, n |-> Len(bytes), bytes |-> bytes]

\* Whether the simulated device d keeps per-pin configuration registers
\* (direction and pull-enable) next to its GPIO state.
HasPinConfig(d) == "dir" \in DOMAIN d

\* The reaction of the configuration registers to a 4-byte payload written
\* to function fn of the GPIO module: direction-set and direction-clear set
\* and clear bits of the direction register, pull-enable-set sets bits of
\* the pull-enable register.
DevConfigWrite(d, fn, pay) ==
    IF fn = SEESAW_GPIO_DIRSET_BULK
    THEN [d EXCEPT !.dir = @ \cup Assemble32(pay)]
    ELSE IF fn = SEESAW_GPIO_DIRCLR_BULK
    THEN [d EXCEPT !.dir = @ \ Assemble32(pay)]
    ELSE IF fn = SEESAW_GPIO_PULLENSET
    THEN [d EXCEPT !.pullen = @ \cup Assemble32(pay)]
    ELSE d

\* Whether the simulated device d keeps the interrupt-enable register of
\* each of its serial modules: d.inten maps the module byte of every serial
\* module whose register was written since power-on to the byte it holds.
HasSercomRegs(d) == "inten" \in DOMAIN d

\* The module bytes of the serial modules: from SEESAW_SERCOM0_BASE up to
\* the next module base.
SercomModules == SEESAW_SERCOM0_BASE..(SEESAW_TIMER_BASE - 1)

\* The interrupt-enable register of serial module m takes the byte written.
DevSercomWrite(d, m, byte) ==
    [d EXCEPT !.inten = [x \in DOMAIN d.inten \cup {m} |->
                            IF x = m THEN byte ELSE d.inten[x]]]

\* The power-on state of the registers of device d.
DevReset(d) ==
    LET d1 == [d EXCEPT !.gpio = {}]
        d2 == IF HasPinConfig(d1) THEN [d1 EXCEPT !.dir = {}, !.pullen = {}] ELSE d1
    IN  IF HasSercomRegs(d2) THEN [d2 EXCEPT !.inten = [x \in {} |-> 0]] ELSE d2

\* The device's reaction to the payload of one write transaction: a bulk-set
\* payload is ORed into the GPIO state, a bulk-clear payload is cleared from
\* it, a software reset restores the power-on state of the registers.
DevWrite(d, bytes) ==
    IF Len(bytes) < 2 THEN d
    ELSE LET reg == <<bytes[1], bytes[2]>>
             pay == SubSeq(bytes, 3, Len(bytes))
         IN  IF reg = <<SEESAW_GPIO_BASE, SEESAW_GPIO_BULK_SET>> /\ Len(pay) = 4
             THEN [d EXCEPT !.gpio = @ \cup Assemble32(pay)]
             ELSE IF reg = <<SEESAW_GPIO_BASE, SEESAW_GPIO_BULK_CLR>> /\ Len(pay) = 4
             THEN [d EXCEPT !.gpio = @ \ Assemble32(pay)]
             ELSE IF reg = <<SEESAW_STATUS_BASE, SEESAW_STATUS_SWRST>>
             THEN DevReset(d)
             ELSE IF /\ HasSercomRegs(d) /\ reg[1] \in SercomModules
                     /\ reg[2] = SEESAW_SERCOM_INTEN /\ Len(pay) = 1
             THEN DevSercomWrite(d, reg[1], pay[1])
             ELSE IF HasPinConfig(d) /\ reg[1] = SEESAW_GPIO_BASE /\ Len(pay) = 4
             THEN DevConfigWrite(d, reg[2], pay)
             ELSE d

\* Byte idx (0-based) the device streams out of the register its pointer was
\* armed to (h.reg, the first two bytes of the last write): the GPIO
\* state big-endian, the hardware id, or for every other register the next
\* bytes of a data stream: the bytes of h.data first, then a count that
\* starts at h.seed.
DevByte(h, idx) ==
    IF h.reg = <<SEESAW_GPIO_BASE, SEESAW_GPIO_BULK>>
    THEN (IF idx < 4 THEN MaskByte(h.dev.gpio, idx) ELSE 0)
    ELSE IF h.reg = <<SEESAW_STATUS_BASE, SEESAW_STATUS_HW_ID>>
    THEN (IF idx = 0 THEN h.dev.hwid ELSE 0)
    ELSE IF h.sent + idx < Len(h.data)
    THEN h.data[h.sent + idx + 1]
    ELSE U8(h.seed + h.sent + idx)

\* Wire.beginTransmission(addr); Wire.write(...); Wire.endTransmission():
\* one write transaction on the bus.  The device takes it, unless this is
\* the transmission the fault plan leaves unacknowledged (h.nackAt): then
\* endTransmission() returns an error code and the device is unchanged.
WireTransmit(h, addr, bytes) ==
    IF h.ntx + 1 = h.nackAt
    THEN [h EXCEPT !.bus = Append(@, NEvent(addr, bytes)), !.ntx = @ + 1]
    ELSE [h EXCEPT !.bus = Append(@, WEvent(addr, bytes)),
                   !.reg = IF Len(bytes) < 2 THEN @ ELSE <<bytes[1], bytes[2]>>,
                   !.dev = DevWrite(@, bytes),
                   !.ntx = @ + 1]

\* Wire.requestFrom(addr, n): one read transaction.  The device delivers n
\* bytes, or fewer when this is the request the fault plan cuts short
\* (h.shortAt, h.shortGot); the bytes wait in Wire's receive buffer.
WireRequestFrom(h, addr, n) ==
    LET k == h.nreq + 1
        cnt == IF k = h.shortAt THEN Min(n, h.shortGot) ELSE n
        got == [j \in 1..cnt |-> DevByte(h, j - 1)]
    IN  [h EXCEPT !.bus = Append(@, REvent(addr, n, got)),
                  !.rx = got, !.nreq = k, !.sent = @ + cnt]

\* Wire.read(), called n times in a row: call i returns the i-th received
\* byte, or -1 when fewer were received; each result is shown as the
\* uint8_t it is stored into.
WireReads(h, n) == [i \in 1..n |-> IF i <= Len(h.rx) THEN h.rx[i] ELSE U8(0 - 1)]

\* Wire's receive buffer after n calls of Wire.read().
WireRest(h, n) == SubSeq(h.rx, Min(n, Len(h.rx)) + 1, Len(h.rx))

\* Wire.begin()
WireBegin(h) == [h EXCEPT !.bus = Append(@, IEvent)]

\* delay(ms) and delayMicroseconds(us)
delay(h, ms) == [h EXCEPT !.bus = Append(@, DEvent(ms))]
delayMicroseconds(h, us) == [h EXCEPT !.bus = Append(@, UEvent(us))]

---------------------------------------------------------------------------
(* Register protocol: write, writeEmpty, read, write8, read8.              *)

\* The arguments of a call of write or writeEmpty, or of the address phase of
\* read, noted as the call is entered (h.calls), next to the handle's address.
Called(h, what, regHigh, regLow, payload) ==
    [h EXCEPT !.calls = Append(@, [what |-> what, addr |-> h.i2caddr,
                                   regHigh |-> U8(regHigh), regLow |-> U8(regLow),
                                   payload |-> payload])]

\* write with the payload sent before the two address bytes.
write_payloadFirst(h, regHigh, regLow, buf, num) ==
    WireTransmit(Called(h, "write", regHigh, regLow, SubSeq(buf, 1, num)),
                 U8(h.i2caddr),
                 SubSeq(buf, 1, num) \o <<U8(regHigh), U8(regLow)>>)

\* Adafruit_seesaw::write(regHigh, regLow, buf, num)
write(h, regHigh, regLow, buf, num) ==
    WireTransmit(Called(h, "write", regHigh, regLow, SubSeq(buf, 1, num)),
                 U8(h.i2caddr),
                 <<U8(regHigh), U8(regLow)>> \o SubSeq(buf, 1, num))

\* Adafruit_seesaw::writeEmpty(regHigh, regLow)
writeEmpty(h, regHigh, regLow) ==
    WireTransmit(Called(h, "write", regHigh, regLow, <<>>),
                 U8(h.i2caddr), <<U8(regHigh), U8(regLow)>>)

\* Adafruit_seesaw::write8(regHigh, regLow, value)
write8(h, regHigh, regLow, value) == write(h, regHigh, regLow, <<U8(value)>>, 1)

\* for(int i=0; i<read_now; i++){ buf[pos] = Wire.read(); pos++; }
\* Iteration i (counted from 1) stores the i-th Wire.read() at buf[pos + i - 1].
\* h.steps keeps, for every run of this loop, the position it started at,
\* the number of bytes it stored and the 8-bit position it left.
ReadCopy(h, read_now) ==
    LET bytes == WireReads(h, read_now)
    IN  [h EXCEPT !.buf = [j \in DOMAIN h.buf |->
                              IF h.pos < j /\ j <= h.pos + read_now
                              THEN bytes[j - h.pos] ELSE h.buf[j]],
                  !.pos = U8(h.pos + read_now),
                  !.rx = WireRest(h, read_now),
                  !.steps = Append(@, [pos |-> h.pos, n |-> read_now,
                                       next |-> U8(h.pos + read_now)])]

\* ReadIter with the chunk size taken from num alone (pos forgotten).
ReadIter_chunkFromNum(h, regHigh, regLow, num, dly) ==
    LET read_now == U8(Min(CHUNK, num))
        h1 == WireTransmit(Called(h, "read", regHigh, regLow, <<>>),
                           U8(h.i2caddr), <<U8(regHigh), U8(regLow)>>)
        h2 == delayMicroseconds(h1, dly)
        h3 == WireRequestFrom(h2, U8(h.i2caddr), read_now)
    IN  ReadCopy(h3, read_now)

\* ReadIter with the address write and the delay done for the first chunk only.
ReadIter_armOnce(h, regHigh, regLow, num, dly) ==
    LET read_now == U8(Min(CHUNK, num - h.pos))
        h1 == WireTransmit(Called(h, "read", regHigh, regLow, <<>>),
                           U8(h.i2caddr), <<U8(regHigh), U8(regLow)>>)
        h2 == IF h.pos = 0 THEN delayMicroseconds(h1, dly) ELSE h
        h3 == WireRequestFrom(h2, U8(h.i2caddr), read_now)
    IN  ReadCopy(h3, read_now)

\* One iteration of the while loop of read: address write, delay, request
\* of read_now bytes, copy into buf.
ReadIter(h, regHigh, regLow, num, dly) ==
    LET read_now == U8(Min(CHUNK, num - h.pos))
        h1 == WireTransmit(Called(h, "read", regHigh, regLow, <<>>),
                           U8(h.i2caddr), <<U8(regHigh), U8(regLow)>>)
        h2 == delayMicroseconds(h1, dly)
        h3 == WireRequestFrom(h2, U8(h.i2caddr), read_now)
    IN  ReadCopy(h3, read_now)

\* The loop of read with its test after the body (do ... while).
RECURSIVE ReadLoop_doWhile(_, _, _, _, _)
ReadLoop_doWhile(h, regHigh, regLow, num, dly) ==
    LET h1 == ReadIter(h, regHigh, regLow, num, dly)
    IN  IF h1.pos < num
        THEN ReadLoop_doWhile(h1, regHigh, regLow, num, dly)
        ELSE h1

\* while(pos < num){ ... }
RECURSIVE ReadLoop(_, _, _, _, _)
ReadLoop(h, regHigh, regLow, num, dly) ==
    IF h.pos < num
    THEN ReadLoop(ReadIter(h, regHigh, regLow, num, dly), regHigh, regLow, num, dly)
    ELSE h

\* A caller's buffer of n bytes that nothing has been stored into yet.
Fresh(n) == [j \in 1..n |-> 0 - 1]

\* Adafruit_seesaw::read(regHigh, regLow, buf, num, delay): buf is h.buf.
read(h, regHigh, regLow, num, dly) ==
    ReadLoop([h EXCEPT !.pos = 0], regHigh, regLow, num, dly)

\* return ret; of read8, ret being the one-byte buffer read into
Ret8(r) == [r EXCEPT !.val = r.buf[1]]

\* Adafruit_seesaw::read8(regHigh, regLow); the result is h.val.
read8(h, regHigh, regLow) ==
    Ret8(read([h EXCEPT !.buf = Fresh(1)], regHigh, regLow, 1, 0))

---------------------------------------------------------------------------
(* Identity and lifecycle.                                                 *)

\* Adafruit_seesaw::_i2c_init()
i2c_init(h) == WireBegin(h)

\* Adafruit_seesaw::SWReset()
SWReset(h) == write8(h, SEESAW_STATUS_BASE, SEESAW_STATUS_SWRST, RESET_VALUE)

\* if(c != SEESAW_HW_ID_CODE) return false; return true; with the test inverted
IdentityCheck_inverted(r) ==
    [r EXCEPT !.val = IF r.val # SEESAW_HW_ID_CODE THEN 1 ELSE 0]

\* if(c != SEESAW_HW_ID_CODE) return false; return true;  (c is r.val)
IdentityCheck(r) ==
    [r EXCEPT !.val = IF r.val # SEESAW_HW_ID_CODE THEN 0 ELSE 1]

\* begin that reads the identity before it resets the device.
begin_identityFirst(h, addr) ==
    LET h1 == [h EXCEPT !.i2caddr = addr]
        h2 == i2c_init(h1)
        h3 == read8(h2, SEESAW_STATUS_BASE, SEESAW_STATUS_HW_ID)
        h4 == SWReset(h3)
        h5 == delay(h4, BEGIN_DELAY_MS)
    IN  IdentityCheck(h5)

\* Adafruit_seesaw::begin(addr); the bool result is h.val (1 = true).
begin(h, addr) ==
    LET h1 == [h EXCEPT !.i2caddr = addr]
        h2 == i2c_init(h1)
        h3 == SWReset(h2)
        h4 == delay(h3, BEGIN_DELAY_MS)
        h5 == read8(h4, SEESAW_STATUS_BASE, SEESAW_STATUS_HW_ID)
    IN  IdentityCheck(h5)

\* The 4 bytes read, assembled least significant byte first.
Ret32_littleEndian(r) ==
    [r EXCEPT !.val32 = Assemble32(<<r.buf[4], r.buf[3], r.buf[2], r.buf[1]>>)]

\* (buf[0] << 24) | (buf[1] << 16) | (buf[2] << 8) | buf[3] of the 4 bytes read
Ret32(r) == [r EXCEPT !.val32 = Assemble32(r.buf)]

\* Adafruit_seesaw::getOptions(); the result is h.val32.
getOptions(h) ==
    Ret32(read([h EXCEPT !.buf = Fresh(4)],
               SEESAW_STATUS_BASE, SEESAW_STATUS_OPTIONS, 4, 0))

\* Adafruit_seesaw::getVersion(); the result is h.val32.
getVersion(h) ==
    Ret32(read([h EXCEPT !.buf = Fresh(4)],
               SEESAW_STATUS_BASE, SEESAW_STATUS_VERSION, 4, 0))

---------------------------------------------------------------------------
(* GPIO.                                                                   *)

\* pinModeBulk with the pull-up writes in another order.
pinModeBulk_reordered(h, pins, mode) ==
    LET cmd == MaskBytes(pins)
    IN  CASE mode = OUTPUT ->
               write(h, SEESAW_GPIO_BASE, SEESAW_GPIO_DIRSET_BULK, cmd, 4)
          [] mode = INPUT ->
               write(h, SEESAW_GPIO_BASE, SEESAW_GPIO_DIRCLR_BULK, cmd, 4)
          [] mode = INPUT_PULLUP ->
               LET h1 == write(h, SEESAW_GPIO_BASE, SEESAW_GPIO_DIRCLR_BULK, cmd, 4)
                   h2 == write(h1, SEESAW_GPIO_BASE, SEESAW_GPIO_BULK_SET, cmd, 4)
               IN  write(h2, SEESAW_GPIO_BASE, SEESAW_GPIO_PULLENSET, cmd, 4)
          [] OTHER -> h

\* Adafruit_seesaw::pinModeBulk(pins, mode)
pinModeBulk(h, pins, mode) ==
    LET cmd == MaskBytes(pins)
    IN  CASE mode = OUTPUT ->
               write(h, SEESAW_GPIO_BASE, SEESAW_GPIO_DIRSET_BULK, cmd, 4)
          [] mode = INPUT ->
               write(h, SEESAW_GPIO_BASE, SEESAW_GPIO_DIRCLR_BULK, cmd, 4)
          [] mode = INPUT_PULLUP ->
               LET h1 == write(h, SEESAW_GPIO_BASE, SEESAW_GPIO_DIRCLR_BULK, cmd, 4)
                   h2 == write(h1, SEESAW_GPIO_BASE, SEESAW_GPIO_PULLENSET, cmd, 4)
               IN  write(h2, SEESAW_GPIO_BASE, SEESAW_GPIO_BULK_SET, cmd, 4)
          [] OTHER -> h

\* 1ul << pin, for pin in 0..31
Bit(pin) == {pin}

\* Adafruit_seesaw::pinMode(pin, mode)
pinMode(h, pin, mode) == pinModeBulk(h, Bit(pin), mode)

\* Adafruit_seesaw::digitalWriteBulk(pins, value)
digitalWriteBulk(h, pins, value) ==
    LET cmd == MaskBytes(pins)
    IN  IF value # 0
        THEN write(h, SEESAW_GPIO_BASE, SEESAW_GPIO_BULK_SET, cmd, 4)
        ELSE write(h, SEESAW_GPIO_BASE, SEESAW_GPIO_BULK_CLR, cmd, 4)

\* Adafruit_seesaw::digitalWrite(pin, value)
digitalWrite(h, pin, value) == digitalWriteBulk(h, Bit(pin), value)

\* digitalReadBulk's result without the mask applied.
RetMasked_unmasked(r, pins) == [r EXCEPT !.val32 = Assemble32(r.buf)]

\* uint32_t ret = (buf[0] << 24) | ... | buf[3]; return ret & pins;
RetMasked(r, pins) == [r EXCEPT !.val32 = Assemble32(r.buf) \cap pins]

\* Adafruit_seesaw::digitalReadBulk(pins); the result is h.val32.
digitalReadBulk(h, pins) ==
    RetMasked(read([h EXCEPT !.buf = Fresh(4)],
                   SEESAW_GPIO_BASE, SEESAW_GPIO_BULK, 4, 0), pins)

\* return digitalReadBulk((1ul << pin)) != 0;
RetNonZero(r) == [r EXCEPT !.val = IF r.val32 # {} THEN 1 ELSE 0]

\* Adafruit_seesaw::digitalRead(pin); the bool result is h.val.
digitalRead(h, pin) == RetNonZero(digitalReadBulk(h, Bit(pin)))

\* Adafruit_seesaw::setGPIOInterrupts(pins, enabled)
setGPIOInterrupts(h, pins, enabled) ==
    LET cmd == MaskBytes(pins)
    IN  IF enabled
        THEN write(h, SEESAW_GPIO_BASE, SEESAW_GPIO_INTENSET, cmd, 4)
        ELSE write(h, SEESAW_GPIO_BASE, SEESAW_GPIO_INTENCLR, cmd, 4)

---------------------------------------------------------------------------
(* ADC and PWM.                                                            *)

\* switch(pin) of analogRead: the ADC channel of a pin, -1 for the default.
AdcChannel(pin) ==
    CASE pin = ADC_INPUT_0_PIN -> 0
      [] pin = ADC_INPUT_1_PIN -> 1
      [] pin = ADC_INPUT_2_PIN -> 2
      [] pin = ADC_INPUT_3_PIN -> 3
      [] OTHER -> 0 - 1

\* uint16_t ret = ((uint16_t)buf[0] << 8) | buf[1]; delay(1); return ret;
Ret16(r) == [delay(r, ADC_DELAY_MS) EXCEPT !.val = U16(r.buf[1] * 256) + r.buf[2]]

\* analogRead without the settle delay after the address write.
analogRead_noSettle(h, pin) ==
    LET p == AdcChannel(pin)
    IN  IF p < 0 THEN [h EXCEPT !.val = 0]
        ELSE Ret16(read([h EXCEPT !.buf = Fresh(2)],
                        SEESAW_ADC_BASE, SEESAW_ADC_CHANNEL_OFFSET + p, 2, 0))

\* analogRead that reads channel 0 for a pin it does not know.
analogRead_defaultChannel(h, pin) ==
    LET p == IF AdcChannel(pin) < 0 THEN 0 ELSE AdcChannel(pin)
    IN  Ret16(read([h EXCEPT !.buf = Fresh(2)],
                   SEESAW_ADC_BASE, SEESAW_ADC_CHANNEL_OFFSET + p, 2, ADC_DELAY_US))

\* Adafruit_seesaw::analogRead(pin); the result is h.val.
analogRead(h, pin) ==
    LET p == AdcChannel(pin)
    IN  IF p < 0 THEN [h EXCEPT !.val = 0]
        ELSE Ret16(read([h EXCEPT !.buf = Fresh(2)],
                        SEESAW_ADC_BASE, SEESAW_ADC_CHANNEL_OFFSET + p, 2,
                        ADC_DELAY_US))

\* a | b on unsigned integers
RECURSIVE BitOr(_, _)
BitOr(a, b) ==
    IF a = 0 THEN b
    ELSE IF b = 0 THEN a
    ELSE (IF a % 2 = 1 \/ b % 2 = 1 THEN 1 ELSE 0) + 2 * BitOr(a \div 2, b \div 2)

\* Adafruit_seesaw::analogReadBulk(buf, num), for num below 128: h.buf is
\* the caller's buffer of num 16-bit words on entry and on return.  The loop
\* sets buf[i] = ((uint16_t)rawbuf[i * 2] << 8) | buf[i * 2 + 1]: the low
\* half is taken from the caller's word 2i+1, which the loop has not yet
\* written (2i+1 > i); where 2i+1 >= num the word lies past the caller's
\* buffer and reading it is undefined behaviour: beyond is the value found.
analogReadBulk(h, num, beyond) ==
    LET buf == h.buf
        r == read([h EXCEPT !.buf = Fresh(num * 2)],
                  SEESAW_ADC_BASE, SEESAW_ADC_CHANNEL_OFFSET, U8(num * 2), 0)
        rawbuf == r.buf
        word(j) == IF j < num THEN buf[j + 1] ELSE beyond
    IN  [r EXCEPT !.buf = [i \in 1..num |->
                             BitOr(U16(rawbuf[2 * (i - 1) + 1] * 256),
                                   word(2 * (i - 1) + 1))]]

\* switch(pin) of analogWrite and setPWMFreq: int8_t p, -1 when unmapped.
PwmChannel(pin) ==
    CASE pin = PWM_0_PIN -> 0
      [] pin = PWM_1_PIN -> 1
      [] pin = PWM_2_PIN -> 2
      [] pin = PWM_3_PIN -> 3
      [] OTHER -> 0 - 1

\* map(x, in_min, in_max, out_min, out_max) of the Arduino core.
map(x, in_min, in_max, out_min, out_max) ==
    ((x - in_min) * (out_max - out_min)) \div (in_max - in_min) + out_min

\* analogWrite that widens an 8-bit value by a shift (v << 8).
analogWrite_shift(h, pin, value, width) ==
    LET p == PwmChannel(pin)
        v == IF width = 16 THEN value ELSE U16(value * 256)
    IN  IF p > 0 - 1
        THEN write(h, SEESAW_TIMER_BASE, SEESAW_TIMER_PWM,
                   <<U8(p), U8(v \div 256), U8(v)>>, 3)
        ELSE h

\* Adafruit_seesaw::analogWrite(pin, value, width)
analogWrite(h, pin, value, width) ==
    LET p == PwmChannel(pin)
    IN  IF p > 0 - 1
        THEN IF width = 16
             THEN write(h, SEESAW_TIMER_BASE, SEESAW_TIMER_PWM,
                        <<U8(p), U8(value \div 256), U8(value)>>, 3)
             ELSE LET mappedVal == U16(map(value, 0, UINT8_MAX, 0, UINT16_MAX))
                  IN  write(h, SEESAW_TIMER_BASE, SEESAW_TIMER_PWM,
                            <<U8(p), U8(mappedVal \div 256), U8(mappedVal)>>, 3)
        ELSE h

\* Adafruit_seesaw::setPWMFreq(pin, freq)
setPWMFreq(h, pin, freq) ==
    LET p == PwmChannel(pin)
    IN  IF p > 0 - 1
        THEN write(h, SEESAW_TIMER_BASE, SEESAW_TIMER_FREQ,
                   <<U8(p), U8(freq \div 256), U8(freq)>>, 3)
        ELSE h

---------------------------------------------------------------------------
(* SERCOM and EEPROM.                                                      *)

\* _sercom_inten.DATA_RDY = b: bit 0 of the cached mask, the rest kept.
SetDataRdy(mask, b) == (mask - (mask % 2)) + b

\* _sercom_inten.get(): the cached mask as one byte.
SercomIntenGet(mask) == U8(mask)

\* this->write8(SEESAW_SERCOM0_BASE + sercom, SEESAW_SERCOM_INTEN,
\*              _sercom_inten.get());
WriteSercomInten(h, sercom) ==
    write8(h, SEESAW_SERCOM0_BASE + sercom, SEESAW_SERCOM_INTEN,
           SercomIntenGet(h.sercom_inten))

\* Adafruit_seesaw::enableSercomDataRdyInterrupt(sercom)
enableSercomDataRdyInterrupt(h, sercom) ==
    WriteSercomInten([h EXCEPT !.sercom_inten = SetDataRdy(@, 1)], sercom)

\* disableSercomDataRdyInterrupt that leaves the cached bit set.
disableSercomDataRdyInterrupt_keeps(h, sercom) ==
    write8(h, SEESAW_SERCOM0_BASE + sercom, SEESAW_SERCOM_INTEN,
           SercomIntenGet(SetDataRdy(h.sercom_inten, 0)))

\* Adafruit_seesaw::disableSercomDataRdyInterrupt(sercom)
disableSercomDataRdyInterrupt(h, sercom) ==
    WriteSercomInten([h EXCEPT !.sercom_inten = SetDataRdy(@, 0)], sercom)

\* Adafruit_seesaw::readSercomData(sercom); the result is h.val.
readSercomData(h, sercom) ==
    read8(h, SEESAW_SERCOM0_BASE + sercom, SEESAW_SERCOM_DATA)

\* Adafruit_seesaw::EEPROMWrite(addr, buf, size)
EEPROMWrite(h, addr, buf, size) == write(h, SEESAW_EEPROM_BASE, addr, buf, size)

\* Adafruit_seesaw::EEPROMWrite8(addr, val)
EEPROMWrite8(h, addr, val) == EEPROMWrite(h, addr, <<U8(val)>>, 1)

\* Adafruit_seesaw::EEPROMRead8(addr); the result is h.val.
EEPROMRead8(h, addr) == read8(h, SEESAW_EEPROM_BASE, addr)

\* setI2CAddr that takes over the new address before writing it.
setI2CAddr_earlyAddr(h, addr) ==
    LET h1 == EEPROMWrite8([h EXCEPT !.i2caddr = addr], SEESAW_EEPROM_I2C_ADDR, addr)
        h2 == delay(h1, ADDR_DELAY_MS)
    IN  begin(h2, addr)

\* Adafruit_seesaw::setI2CAddr(addr)
setI2CAddr(h, addr) ==
    LET h1 == EEPROMWrite8(h, SEESAW_EEPROM_I2C_ADDR, addr)
        h2 == delay(h1, ADDR_DELAY_MS)
    IN  begin(h2, addr)

\* Adafruit_seesaw::getI2CAddr(); the result is h.val.
getI2CAddr(h) == read8(h, SEESAW_EEPROM_BASE, SEESAW_EEPROM_I2C_ADDR)

\* Adafruit_seesaw::UARTSetBaud(baud), baud below 2^31
UARTSetBaud(h, baud) ==
    write(h, SEESAW_SERCOM0_BASE, SEESAW_SERCOM_BAUD,
          <<U8(baud \div 2^24), U8(baud \div 2^16), U8(baud \div 2^8), U8(baud)>>, 4)

\* Adafruit_seesaw::write(uint8_t character)
write_char(h, character) ==
    delay(write8(h, SEESAW_SERCOM0_BASE, SEESAW_SERCOM_DATA, character), 1)

\* uint8_t buf[32] of the string form of write
STR_BUF_SIZE == 32

\* Adafruit_seesaw::write(const char *str): str is the string without its
\* terminating 0.  The loop stores str[i] at buf[i] for every i below the
\* string's length, with no check against the size of buf; h.buf is the
\* memory from buf[0] on as the loop leaves it, the result is h.val.  A
\* string that fits is sent and its length returned.  For a longer one the
\* stores past buf[31] are undefined behaviour, and ub picks what the build
\* makes of them: "intact" (they hit nothing the function uses: the whole
\* string is sent and the call returns), "crash" (they hit the return
\* address: the string is sent and the call never returns), or
\* <<"clobbered", n>> (they hit len: n bytes are sent and n is returned).
write_str(h, str, ub) ==
    LET len == U8(Len(str))
        h1 == [h EXCEPT !.buf = str]
        sent == write(h1, SEESAW_SERCOM0_BASE, SEESAW_SERCOM_DATA, str, len)
    IN  IF Len(str) <= STR_BUF_SIZE \/ ub = "intact"
        THEN [sent EXCEPT !.val = len]
        ELSE IF ub = "crash"
        THEN [sent EXCEPT !.outcome = "crashed"]
        ELSE LET n == ub[2]
                 mem == [j \in 1..n |-> IF j <= Len(str) THEN str[j] ELSE 0]
             IN  [write(h1, SEESAW_SERCOM0_BASE, SEESAW_SERCOM_DATA, mem, n)
                     EXCEPT !.val = n]

---------------------------------------------------------------------------
(* Inputs of the model.                                                    *)

\* The requests of one call that the transport may cut short, and to how
\* many bytes.
NChunks(num) == (num + CHUNK - 1) \div CHUNK
ShortGots == {1}

\* Start values of the device's data stream (250 wraps past 255).
Seeds == {250}

HwIds == {0, SEESAW_HW_ID_CODE - 1, SEESAW_HW_ID_CODE, UINT8_MAX}
GpioInit == {{}, {3, 9, 15, 24}}

\* The handle at the start of a call.
Handle(seed, shortAt, shortGot) ==
    [i2caddr |-> i2caddr, sercom_inten |-> sercom_inten, dev |-> dev,
     bus |-> <<>>, rx |-> <<>>, reg |-> <<0, 0>>, calls |-> <<>>,
     val |-> 0, val32 |-> {}, buf |-> <<>>, pos |-> 0, steps |-> <<>>,
     seed |-> seed, data |-> <<>>, sent |-> 0, nreq |-> 0,
     shortAt |-> shortAt, shortGot |-> shortGot,
     nackAt |-> 0, ntx |-> 0, outcome |-> "returned"]

\* The handle after a call that hands nothing back.
Void(h) == [h EXCEPT !.val = 0, !.val32 = {}, !.buf = <<>>]

\* The pin states of the GPIO facade, by the mode that selects them.
ModeName(mode) ==
    CASE mode = INPUT -> "input"
      [] mode = INPUT_PULLUP -> "input-with-pullup"
      [] mode = OUTPUT -> "output"

\* The mode each pin was last given, after operation o (kept for a device
\* with configuration registers): pinMode and pinModeBulk with one of the
\* three modes give it to the pins of their mask, a software reset takes
\* every pin back to "unconfigured".
LastMode(h, o) ==
    IF ~HasPinConfig(h.dev) THEN lastmode
    ELSE IF o.name \in {"pinMode", "pinModeBulk"}
    THEN (IF o.mode \in {INPUT, OUTPUT, INPUT_PULLUP}
          THEN [p \in 0..31 |->
                   IF p \in (IF o.name = "pinMode" THEN {o.pin} ELSE o.pins)
                   THEN ModeName(o.mode) ELSE lastmode[p]]
          ELSE lastmode)
    ELSE IF \E i \in 1..Len(h.bus) :
                /\ h.bus[i].k = "W"
                /\ SubSeq(h.bus[i].bytes, 1, 2) =
                       <<SEESAW_STATUS_BASE, SEESAW_STATUS_SWRST>>
    THEN [p \in 0..31 |-> "unconfigured"]
    ELSE lastmode

\* The state after a call that ended in handle h.
Return(h, o) ==
    /\ calls' = h.calls
    /\ i2caddr' = h.i2caddr
    /\ sercom_inten' = h.sercom_inten
    /\ dev' = h.dev
    /\ bus' = h.bus
    /\ op' = o
    /\ prev' = IF op.name = "digitalWriteBulk" THEN op ELSE [name |-> "other"]
    /\ ret' = h.val
    /\ retmask' = h.val32
    /\ rbuf' = h.buf
    /\ outcome' = h.outcome
    /\ lastmode' = LastMode(h, o)

Init ==
    /\ i2caddr = 0
    /\ sercom_inten = 0
    /\ dev \in [hwid : HwIds, gpio : GpioInit]
    /\ bus = <<>>
    /\ op = [name |-> "none"]
    /\ prev = [name |-> "other"]
    /\ ret = 0
    /\ retmask = {}
    /\ rbuf = <<>>
    /\ calls = <<>>
    /\ outcome = "returned"
    /\ lastmode = [p \in 0..31 |-> "unconfigured"]

---------------------------------------------------------------------------
(* The public operations as actions.  Each takes the sets its arguments    *)
(* are drawn from; shorts is the set of requests (0 = none, k = the k-th   *)
(* of the call) that the transport may leave unanswered.                   *)

Shorts == {0, 1}
Seed == CHOOSE x \in Seeds : TRUE

Call(name) == [name |-> name, old |-> i2caddr]

Begin(addrs) ==
    \E addr \in addrs, sh \in Shorts :
        Return(begin(Handle(Seed, sh, 0), addr),
               [name |-> "begin", old |-> i2caddr, addr |-> addr])

SoftReset == Return(Void(SWReset(Handle(Seed, 0, 0))), Call("SWReset"))

GetOptions ==
    \E sh \in Shorts, seed \in Seeds :
        Return(getOptions(Handle(seed, sh, 0)), Call("getOptions"))

GetVersion ==
    \E sh \in Shorts, seed \in Seeds :
        Return(getVersion(Handle(seed, sh, 0)), Call("getVersion"))

PinModeBulk(masks, modes) ==
    \E pins \in masks, mode \in modes :
        Return(Void(pinModeBulk(Handle(Seed, 0, 0), pins, mode)),
               [name |-> "pinModeBulk", old |-> i2caddr, pins |-> pins, mode |-> mode])

PinMode(pinset, modes) ==
    \E pin \in pinset, mode \in modes :
        Return(Void(pinMode(Handle(Seed, 0, 0), pin, mode)),
               [name |-> "pinMode", old |-> i2caddr, pin |-> pin, mode |-> mode])

DigitalWriteBulk(masks, values) ==
    \E pins \in masks, value \in values :
        Return(Void(digitalWriteBulk(Handle(Seed, 0, 0), pins, value)),
               [name |-> "digitalWriteBulk", old |-> i2caddr, pins |-> pins,
                value |-> value])

DigitalWrite(pinset, values) ==
    \E pin \in pinset, value \in values :
        Return(Void(digitalWrite(Handle(Seed, 0, 0), pin, value)),
               [name |-> "digitalWrite", old |-> i2caddr, pin |-> pin, value |-> value])

DigitalReadBulk(masks) ==
    \E pins \in masks, sh \in Shorts :
        Return(digitalReadBulk(Handle(Seed, sh, 0), pins),
               [name |-> "digitalReadBulk", old |-> i2caddr, pins |-> pins])

DigitalRead(pinset) ==
    \E pin \in pinset, sh \in Shorts :
        Return(digitalRead(Handle(Seed, sh, 0), pin),
               [name |-> "digitalRead", old |-> i2caddr, pin |-> pin])

SetGPIOInterrupts(masks) ==
    \E pins \in masks, enabled \in BOOLEAN :
        Return(Void(setGPIOInterrupts(Handle(Seed, 0, 0), pins, enabled)),
               [name |-> "setGPIOInterrupts", old |-> i2caddr, pins |-> pins,
                enabled |-> enabled])

\* The locals of analogRead start out as whatever the stack holds (val = 1).
AnalogRead(pinset) ==
    \E pin \in pinset, sh \in Shorts, seed \in Seeds :
        Return(analogRead([Handle(seed, sh, 0) EXCEPT !.val = 1], pin),
               [name |-> "analogRead", old |-> i2caddr, pin |-> pin])

AnalogReadFrom(pinset, answers) ==
    \E pin \in pinset, sh \in Shorts, answer \in answers :
        Return(analogRead([Handle(Seed, sh, 0) EXCEPT !.val = 1, !.data = answer], pin),
               [name |-> "analogRead", old |-> i2caddr, pin |-> pin])

AnalogReadBulk(nums, buffers, answers, beyonds) ==
    \E num \in nums, buf \in buffers, answer \in answers, beyond \in beyonds,
       sh \in Shorts :
        /\ Len(buf) = num /\ Len(answer) = 2 * num
        /\ Return(analogReadBulk([Handle(Seed, sh, 0) EXCEPT !.buf = buf,
                                                             !.data = answer],
                                 num, beyond),
                  [name |-> "analogReadBulk", old |-> i2caddr, num |-> num,
                   before |-> buf])

AnalogWrite(pinset, values, widths) ==
    \E pin \in pinset, value \in values, width \in widths :
        Return(Void(analogWrite(Handle(Seed, 0, 0), pin, value, width)),
               [name |-> "analogWrite", old |-> i2caddr, pin |-> pin, value |-> value,
                width |-> width])

SetPWMFreq(pinset, freqs) ==
    \E pin \in pinset, freq \in freqs :
        Return(Void(setPWMFreq(Handle(Seed, 0, 0), pin, freq)),
               [name |-> "setPWMFreq", old |-> i2caddr, pin |-> pin, freq |-> freq])

EnableSercomDataRdyInterrupt(sercoms) ==
    \E sercom \in sercoms :
        Return(Void(enableSercomDataRdyInterrupt(Handle(Seed, 0, 0), sercom)),
               [name |-> "enableSercomDataRdyInterrupt", old |-> i2caddr,
                sercom |-> sercom, was |-> sercom_inten])

DisableSercomDataRdyInterrupt(sercoms) ==
    \E sercom \in sercoms :
        Return(Void(disableSercomDataRdyInterrupt(Handle(Seed, 0, 0), sercom)),
               [name |-> "disableSercomDataRdyInterrupt", old |-> i2caddr,
                sercom |-> sercom, was |-> sercom_inten])

ReadSercomData(sercoms) ==
    \E sercom \in sercoms, sh \in Shorts :
        Return(readSercomData(Handle(Seed, sh, 0), sercom),
               [name |-> "readSercomData", old |-> i2caddr, sercom |-> sercom])

SetI2CAddr(addrs) ==
    \E addr \in addrs, sh \in Shorts :
        Return(Void(setI2CAddr(Handle(Seed, sh, 0), addr)),
               [name |-> "setI2CAddr", old |-> i2caddr, addr |-> addr])

GetI2CAddr ==
    \E sh \in Shorts :
        Return(getI2CAddr(Handle(Seed, sh, 0)), Call("getI2CAddr"))

EepromWrite8(offsets, values) ==
    \E addr \in offsets, val \in values :
        Return(Void(EEPROMWrite8(Handle(Seed, 0, 0), addr, val)),
               [name |-> "EEPROMWrite8", old |-> i2caddr, addr |-> addr, val |-> val])

EepromRead8(offsets) ==
    \E addr \in offsets, sh \in Shorts :
        Return(EEPROMRead8(Handle(Seed, sh, 0), addr),
               [name |-> "EEPROMRead8", old |-> i2caddr, addr |-> addr])

UartSetBaud(bauds) ==
    \E baud \in bauds :
        Return(Void(UARTSetBaud(Handle(Seed, 0, 0), baud)),
               [name |-> "UARTSetBaud", old |-> i2caddr, baud |-> baud])

\* write(uint8_t) is declared size_t and has no return statement: its result
\* is whatever the build leaves in the return register (r).
WriteChar(chars, results) ==
    \E character \in chars, r \in results :
        Return([Void(write_char(Handle(Seed, 0, 0), character)) EXCEPT !.val = r],
               [name |-> "write_char", old |-> i2caddr, character |-> character])

WriteStr(strings, ubs) ==
    \E str \in strings, ub \in ubs :
        Return(write_str(Handle(Seed, 0, 0), str, ub),
               [name |-> "write_str", old |-> i2caddr, str |-> str])

RawWrite(regs, payloads) ==
    \E reg \in regs, buf \in payloads :
        Return(Void(write(Handle(Seed, 0, 0), reg[1], reg[2], buf, Len(buf))),
               [name |-> "write", old |-> i2caddr, regHigh |-> reg[1],
                regLow |-> reg[2], buf |-> buf])

RawWrite8(regs, values) ==
    \E reg \in regs, value \in values :
        Return(Void(write8(Handle(Seed, 0, 0), reg[1], reg[2], value)),
               [name |-> "write8", old |-> i2caddr, regHigh |-> reg[1],
                regLow |-> reg[2], value |-> value])

RawWriteEmpty(regs) ==
    \E reg \in regs :
        Return(Void(writeEmpty(Handle(Seed, 0, 0), reg[1], reg[2])),
               [name |-> "writeEmpty", old |-> i2caddr, regHigh |-> reg[1],
                regLow |-> reg[2]])

RawRead8(regs) ==
    \E reg \in regs, sh \in Shorts :
        Return(read8(Handle(Seed, sh, 0), reg[1], reg[2]),
               [name |-> "read8", old |-> i2caddr, regHigh |-> reg[1],
                regLow |-> reg[2]])

---------------------------------------------------------------------------
(* The raw register read, over every length.                               *)

\* Registers read, each with the delay its readers pass.
ReadRegs == {<<<<SEESAW_STATUS_BASE, SEESAW_STATUS_VERSION>>, 0>>,
             <<<<SEESAW_ADC_BASE, SEESAW_ADC_CHANNEL_OFFSET>>, ADC_DELAY_US>>}

Read(nums) ==
    \E rd \in ReadRegs, num \in nums, seed \in Seeds :
    \E shortAt \in 0..NChunks(num), shortGot \in ShortGots :
        /\ shortAt = 0 => shortGot = 1
        /\ LET r == read([Handle(seed, shortAt, shortGot) EXCEPT !.buf = Fresh(num)],
                         rd[1][1], rd[1][2], num, rd[2])
           IN  Return(r, [name |-> "read", old |-> i2caddr, regHigh |-> rd[1][1],
                          regLow |-> rd[1][2], num |-> num, dly |-> rd[2],
                          steps |-> r.steps])

InitRead == Init /\ dev = [hwid |-> SEESAW_HW_ID_CODE, gpio |-> {}]

\* Every length, each on a newly constructed handle.
NextRead == op.name = "none" /\ Read(0..UINT8_MAX)

SpecRead == InitRead /\ [][NextRead]_vars

---------------------------------------------------------------------------
(* Specifications.                                                         *)

Addrs == {73, 74}
Masks == {{}, {0, 31}, {3, 9, 15, 24}, 0..31}
Pins == {0, 9, 31}
TopPin == {31}
Modes == {INPUT, OUTPUT, INPUT_PULLUP, INPUT_PULLUP + 1}
Levels == {0, 1, UINT8_MAX}
Sercoms == {0, 1, UINT8_MAX}
Offsets == {0, SEESAW_EEPROM_I2C_ADDR}
AllPins == 0..UINT8_MAX
MappedPwmPins == {PWM_0_PIN, PWM_1_PIN, PWM_2_PIN, PWM_3_PIN}
Duty8 == 0..UINT8_MAX
Duty16 == {0, 1, UINT8_MAX, UINT8_MAX + 1, 4660, UINT16_MAX}
Scaled == {(v * UINT16_MAX) \div UINT8_MAX : v \in Duty8}
Freqs == {0, 1000, UINT16_MAX}
StatusRegs == {<<SEESAW_STATUS_BASE, SEESAW_STATUS_VERSION>>}

\* GPIO operations.
NextGpio ==
    \/ PinModeBulk(Masks, Modes)
    \/ PinMode(TopPin, Modes)
    \/ DigitalWriteBulk(Masks, Levels)
    \/ DigitalWrite(TopPin, Levels)
    \/ DigitalReadBulk(Masks)
    \/ DigitalRead(Pins)
    \/ SetGPIOInterrupts(Masks)

InitGpio == Init /\ dev.hwid = SEESAW_HW_ID_CODE

SpecGpio == InitGpio /\ [][NextGpio]_vars

\* Identity, address, SERCOM and EEPROM operations.
NextLife ==
    \/ Begin(Addrs)
    \/ SoftReset
    \/ GetOptions
    \/ GetVersion
    \/ SetI2CAddr(Addrs)
    \/ GetI2CAddr
    \/ EnableSercomDataRdyInterrupt(Sercoms)
    \/ DisableSercomDataRdyInterrupt(Sercoms)
    \/ ReadSercomData(Sercoms)
    \/ EepromWrite8(Offsets, Levels)
    \/ EepromRead8(Offsets)

SpecLife == Init /\ [][NextLife]_vars

\* ADC and PWM operations over every pin number and every 8-bit duty, each
\* on a newly constructed handle.
NextAnalog ==
    /\ op.name = "none"
    /\ \/ AnalogRead(AllPins)
       \/ AnalogWrite(MappedPwmPins, Duty8, {8})
       \/ AnalogWrite(MappedPwmPins, Duty16 \cup Scaled, {16})
       \/ AnalogWrite(AllPins \ MappedPwmPins, Duty16, {8, 16})
       \/ SetPWMFreq(AllPins, Freqs)

SpecAnalog == InitRead /\ [][NextAnalog]_vars

\* Every operation, on one or two arguments each.
Next ==
    \/ Begin({73})
    \/ SoftReset
    \/ GetOptions
    \/ GetVersion
    \/ PinModeBulk({{3, 9, 15, 24}}, {OUTPUT, INPUT_PULLUP})
    \/ PinMode({9}, {INPUT})
    \/ DigitalWriteBulk({{3, 9, 15, 24}}, {0, 1})
    \/ DigitalWrite({9}, {1})
    \/ DigitalReadBulk({0..31})
    \/ DigitalRead({9})
    \/ SetGPIOInterrupts({{3, 9, 15, 24}})
    \/ AnalogRead({ADC_INPUT_1_PIN, PWM_3_PIN})
    \/ AnalogReadBulk({2}, {<<0, 0>>}, {<<1, 2, 3, 4>>}, {0})
    \/ AnalogWrite({PWM_1_PIN, ADC_INPUT_0_PIN}, {UINT8_MAX}, {8, 16})
    \/ SetPWMFreq({PWM_2_PIN, ADC_INPUT_0_PIN}, {1000})
    \/ EnableSercomDataRdyInterrupt({1})
    \/ DisableSercomDataRdyInterrupt({0})
    \/ ReadSercomData({1})
    \/ SetI2CAddr({74})
    \/ GetI2CAddr
    \/ EepromWrite8({0}, {UINT8_MAX})
    \/ EepromRead8({0})
    \/ UartSetBaud({115200})
    \/ WriteChar({65}, {0, 1})
    \/ WriteStr({<<72, 105>>}, {"intact"})
    \/ RawWrite(StatusRegs, {<<>>, <<1, 2, 3>>})
    \/ RawWrite8(StatusRegs, {7})
    \/ RawWriteEmpty(StatusRegs)
    \/ RawRead8(StatusRegs)
    \/ Read({0, 1, CHUNK + 8})

Spec == InitRead /\ [][Next]_vars

---------------------------------------------------------------------------
(* Properties of the register read.                                        *)

\* The read requests, and the write transactions, of the last operation.
Requests == SelectSeq(bus, LAMBDA e : e.k = "R")
Writes == SelectSeq(bus, LAMBDA e : e.k = "W")

\* The size of the k-th of the requests that fetch num bytes.
ChunkSize(num, k) == Min(CHUNK, num - CHUNK * (k - 1))

RECURSIVE Concat(_)
Concat(chunks) ==
    IF chunks = <<>> THEN <<>> ELSE Head(chunks).bytes \o Concat(Tail(chunks))

AllDelivered == \A k \in 1..Len(Requests) : Len(Requests[k].bytes) = Requests[k].n

\* C1: a read of num bytes (0..255) issues exactly ceil(num/32) read
\* requests, the k-th of size min(32, num - 32*(k-1)); the buffer has num
\* bytes, every byte the transport delivered for the k-th request lies in it
\* at its place (32*(k-1) + j), and when each request was delivered in full
\* the buffer is the concatenation of the delivered chunks, in order.
C1_ReadChunks ==
    op.name = "read" =>
        /\ Len(Requests) = NChunks(op.num)
        /\ \A k \in 1..Len(Requests) : Requests[k].n = ChunkSize(op.num, k)
        /\ Len(rbuf) = op.num
        /\ \A k \in 1..Len(Requests) : \A j \in 1..Len(Requests[k].bytes) :
               rbuf[CHUNK * (k - 1) + j] = Requests[k].bytes[j]
        /\ AllDelivered => rbuf = Concat(Requests)

\* A read of 40 bytes, fully delivered: two requests, 32 then 8.
C1_Witness ==
    /\ op.name = "read" /\ op.num = CHUNK + 8
    /\ AllDelivered
    /\ Len(Requests) = 2 /\ Requests[1].n = CHUNK /\ Requests[2].n = 8
    /\ Len(rbuf) = CHUNK + 8 /\ rbuf = Requests[1].bytes \o Requests[2].bytes
    /\ rbuf[CHUNK + 1] # rbuf[1]

\* The address-only write of a register read.
AddressWrite(regHigh, regLow) == WEvent(i2caddr, <<regHigh, regLow>>)

\* C2 as claimed: a read of 1..255 bytes issues exactly one address-only
\* write, before every read request, whatever the number of chunks.
C2_OneAddressWrite ==
    (op.name = "read" /\ op.num >= 1) =>
        /\ Len(Writes) = 1
        /\ bus[1] = AddressWrite(op.regHigh, op.regLow)
        /\ \A i \in 2..Len(bus) : bus[i].k # "W"

\* C2 as the code has it: a read of num bytes (1..255) issues one
\* address-only write per chunk, ceil(num/32) in all; each is followed by the
\* post-address delay and then by that chunk's read request, so every read
\* request has its own address write right before it, and a read of at most
\* 32 bytes issues exactly one address write, before its only request.
C2_AddressWritePerChunk ==
    (op.name = "read" /\ op.num >= 1) =>
        /\ Len(Writes) = NChunks(op.num)
        /\ Len(bus) = 3 * NChunks(op.num)
        /\ \A c \in 1..NChunks(op.num) :
               /\ bus[3 * c - 2] = AddressWrite(op.regHigh, op.regLow)
               /\ bus[3 * c - 1] = UEvent(op.dly)
               /\ bus[3 * c].k = "R"
        /\ op.num <= CHUNK => Len(Writes) = 1

\* A read of 40 bytes: the second request has an address write of its own.
C2_Witness ==
    /\ op.name = "read" /\ op.num = CHUNK + 8
    /\ Len(Writes) = 2 /\ Len(bus) = 6
    /\ bus[4] = AddressWrite(op.regHigh, op.regLow) /\ bus[6].k = "R"

---------------------------------------------------------------------------
(* Properties of the write frame.                                          *)

\* C3: every write a facade operation issues (write, write8, writeEmpty and
\* the operations built on them) and every address phase of a read is
\* exactly one bus transaction, sent to the handle's target address of that
\* moment, whose bytes are the module byte, the function byte and then the
\* payload in caller order (none for writeEmpty and for a read's address
\* phase); no transaction starts with anything but these two bytes.
C3_WriteFrames ==
    /\ Len(Writes) = Len(calls)
    /\ \A k \in 1..Len(calls) :
           /\ Writes[k].addr =
                  (IF op.name = "setI2CAddr" /\ k = 1 THEN op.old ELSE i2caddr)
           /\ Writes[k].n = 2 + Len(calls[k].payload)
           /\ Writes[k].bytes =
                  <<calls[k].regHigh, calls[k].regLow>> \o calls[k].payload
    /\ op.name = "write" =>
           bus = <<WEvent(i2caddr, <<op.regHigh, op.regLow>> \o op.buf)>>
    /\ op.name = "write8" =>
           bus = <<WEvent(i2caddr, <<op.regHigh, op.regLow, op.value>>)>>
    /\ op.name = "writeEmpty" =>
           bus = <<WEvent(i2caddr, <<op.regHigh, op.regLow>>)>>

\* A three-byte write to the version register after the address was changed.
C3_Witness ==
    /\ op.name = "write" /\ op.buf = <<1, 2, 3>> /\ i2caddr = 74
    /\ bus = <<[k |-> "W", addr |-> 74, n |-> 5,
                bytes |-> <<SEESAW_STATUS_BASE, SEESAW_STATUS_VERSION, 1, 2, 3>>]>>

---------------------------------------------------------------------------
(* Properties of begin and setI2CAddr.                                     *)

\* C4: begin(addr) returns true if and only if the one byte it reads from
\* the hardware-identity register of the status module equals
\* SEESAW_HW_ID_CODE; for every other byte, and when no byte arrives (the
\* byte read is then 0xFF), it returns false.
C4_BeginResult ==
    op.name = "begin" =>
        /\ Len(Requests) = 1 /\ Requests[1].n = 1
        /\ bus[Len(bus) - 2] =
               AddressWrite(SEESAW_STATUS_BASE, SEESAW_STATUS_HW_ID)
        /\ Requests[1].bytes \in {<<>>, <<dev.hwid>>}
        /\ ret \in {0, 1}
        /\ ret = 1 <=> Requests[1].bytes = <<SEESAW_HW_ID_CODE>>

\* begin on a device with the expected identity returns true.
C4_Witness ==
    /\ op.name = "begin" /\ dev.hwid = SEESAW_HW_ID_CODE
    /\ Requests[1].bytes = <<SEESAW_HW_ID_CODE>> /\ ret = 1

\* The transactions and delays of the begin lifecycle at address a.
BeginTrace(a) ==
    <<IEvent,
      WEvent(a, <<SEESAW_STATUS_BASE, SEESAW_STATUS_SWRST, RESET_VALUE>>),
      DEvent(BEGIN_DELAY_MS),
      WEvent(a, <<SEESAW_STATUS_BASE, SEESAW_STATUS_HW_ID>>),
      UEvent(0)>>

\* C8: setI2CAddr(newAddress) performs, in order: one write of newAddress to
\* the EEPROM address offset, sent to the old target address; the settle
\* delay; then the begin lifecycle (transport init, reset write, settle
\* delay, identity read) with every transaction sent to newAddress; after it
\* the handle's address is newAddress, and every operation that is neither
\* begin nor setI2CAddr keeps the address and sends all its transactions to it.
C8_SetAddress ==
    /\ op.name = "setI2CAddr" =>
           /\ Len(bus) = 8
           /\ SubSeq(bus, 1, 7) =
                  <<WEvent(op.old, <<SEESAW_EEPROM_BASE, SEESAW_EEPROM_I2C_ADDR,
                                     op.addr>>),
                    DEvent(ADDR_DELAY_MS)>> \o BeginTrace(op.addr)
           /\ bus[8].k = "R" /\ bus[8].addr = op.addr /\ bus[8].n = 1
           /\ i2caddr = op.addr
    /\ op.name \notin {"none", "begin", "setI2CAddr"} =>
           /\ i2caddr = op.old
           /\ \A i \in 1..Len(bus) : bus[i].k \in {"W", "R"} => bus[i].addr = i2caddr

\* An address change from 73 to 74.
C8_Witness ==
    /\ op.name = "setI2CAddr" /\ op.old = 73 /\ op.addr = 74 /\ i2caddr = 74
    /\ bus[1].addr = 73 /\ bus[1].bytes = <<13, 63, 74>>
    /\ bus[4].addr = 74 /\ bus[6].addr = 74 /\ bus[8].addr = 74

---------------------------------------------------------------------------
(* Properties of the GPIO operations.                                      *)

RECURSIVE SumBits(_)
SumBits(S) ==
    IF S = {} THEN 0
    ELSE LET x == CHOOSE y \in S : TRUE IN 2^x + SumBits(S \ {x})

\* A 32-bit mask as 4 bytes, most significant first.
BigEndian(pins) ==
    [k \in 1..4 |-> SumBits({i - 8 * (4 - k) : i \in {q \in pins : q \div 8 = 4 - k}})]

GpioWrite(fn, pins) == WEvent(i2caddr, <<SEESAW_GPIO_BASE, fn>> \o BigEndian(pins))

\* C5: pinModeBulk(mask, INPUT_PULLUP) issues exactly three write
\* transactions, in this order: direction-clear, pull-enable-set, bulk-set,
\* each with the 4-byte mask as payload; with OUTPUT it issues exactly one
\* write to direction-set, with INPUT exactly one to direction-clear.
C5_PinModeBulkWrites ==
    op.name = "pinModeBulk" =>
        /\ op.mode = INPUT_PULLUP =>
               bus = <<GpioWrite(SEESAW_GPIO_DIRCLR_BULK, op.pins),
                       GpioWrite(SEESAW_GPIO_PULLENSET, op.pins),
                       GpioWrite(SEESAW_GPIO_BULK_SET, op.pins)>>
        /\ op.mode = OUTPUT => bus = <<GpioWrite(SEESAW_GPIO_DIRSET_BULK, op.pins)>>
        /\ op.mode = INPUT => bus = <<GpioWrite(SEESAW_GPIO_DIRCLR_BULK, op.pins)>>

\* Pull-ups on pins 3, 9, 15 and 24: three writes of 01 00 82 08.
C5_Witness ==
    /\ op.name = "pinModeBulk" /\ op.mode = INPUT_PULLUP /\ op.pins = {3, 9, 15, 24}
    /\ Len(bus) = 3
    /\ bus[1].bytes = <<1, 3, 1, 0, 130, 8>>
    /\ bus[2].bytes = <<1, 11, 1, 0, 130, 8>>
    /\ bus[3].bytes = <<1, 5, 1, 0, 130, 8>>

\* C6: on the simulated device (bulk-set payloads ORed into the GPIO state,
\* bulk-clear payloads cleared from it, reads of the state answered in
\* full), for every mask m and every device state, digitalWriteBulk(m, v)
\* with v non-zero followed by digitalReadBulk(m) returns m, and
\* digitalWriteBulk(m, 0) followed by digitalReadBulk(m) returns 0;
\* digitalReadBulk(m) never returns a bit outside m.
C6_GpioRoundTrip ==
    op.name = "digitalReadBulk" =>
        /\ retmask \subseteq op.pins
        /\ (prev.name = "digitalWriteBulk" /\ prev.pins = op.pins /\ AllDelivered) =>
               retmask = (IF prev.value # 0 THEN op.pins ELSE {})

\* Pins 3, 9, 15, 24 set and read back on a device that has other pins high.
C6_Witness ==
    /\ op.name = "digitalReadBulk" /\ op.pins = {3, 9, 15, 24}
    /\ prev.name = "digitalWriteBulk" /\ prev.pins = op.pins /\ prev.value = 1
    /\ AllDelivered /\ 31 \in dev.gpio
    /\ retmask = {3, 9, 15, 24}

---------------------------------------------------------------------------
(* Properties of the SERCOM interrupt mask.                                *)

\* C7: every enableSercomDataRdyInterrupt / disableSercomDataRdyInterrupt
\* call writes exactly one byte to the interrupt-enable register at
\* (SEESAW_SERCOM0_BASE + sercom), equal to the cached mask after the update;
\* in that mask the data-ready bit (bit 0) is 1 after enable and 0 after
\* disable, and every other bit has the value it had before the call.
C7_SercomInten ==
    op.name \in {"enableSercomDataRdyInterrupt", "disableSercomDataRdyInterrupt"} =>
        /\ sercom_inten \in 0..UINT8_MAX
        /\ bus = <<WEvent(i2caddr, <<U8(SEESAW_SERCOM0_BASE + op.sercom),
                                     SEESAW_SERCOM_INTEN, sercom_inten>>)>>
        /\ sercom_inten % 2 =
               (IF op.name = "enableSercomDataRdyInterrupt" THEN 1 ELSE 0)
        /\ sercom_inten \div 2 = op.was \div 2

\* A disable on SERCOM1 after an enable: the byte 0 goes to module 3.
C7_Witness ==
    /\ op.name = "disableSercomDataRdyInterrupt" /\ op.sercom = 1 /\ op.was = 1
    /\ sercom_inten = 0
    /\ bus[1].bytes = <<3, 2, 0>>

---------------------------------------------------------------------------
(* Properties of the ADC and PWM operations.                               *)

MappedAdcPins == {ADC_INPUT_0_PIN, ADC_INPUT_1_PIN, ADC_INPUT_2_PIN, ADC_INPUT_3_PIN}

\* C9: for every pin number that is not one of the four ADC pins,
\* analogRead(pin) returns 0 and makes no transport call and no delay; for
\* every pin number that is not one of the four PWM pins, analogWrite and
\* setPWMFreq make no transport call.
C9_UnmappedPins ==
    /\ (op.name = "analogRead" /\ op.pin \notin MappedAdcPins) =>
           ret = 0 /\ bus = <<>>
    /\ (op.name \in {"analogWrite", "setPWMFreq"} /\ op.pin \notin MappedPwmPins) =>
           bus = <<>>

\* analogRead on pin 7, a PWM pin that is no ADC pin.
C9_Witness ==
    /\ op.name = "analogRead" /\ op.pin = PWM_3_PIN /\ op.pin \notin MappedAdcPins
    /\ ret = 0 /\ bus = <<>>

\* The PWM channel index of a mapped pin.
PwmIndex(pin) ==
    CHOOSE c \in 0..3 : <<PWM_0_PIN, PWM_1_PIN, PWM_2_PIN, PWM_3_PIN>>[c + 1] = pin

\* C10: for every mapped PWM pin and every v in 0..255, analogWrite(pin, v, 8)
\* emits exactly the one write transaction that
\* analogWrite(pin, v*65535/255, 16) emits: PWM register, payload channel
\* index, high byte, low byte of v*65535/255, which never exceeds 65535.
C10_PwmScaling ==
    (op.name = "analogWrite" /\ op.width = 8 /\ op.pin \in MappedPwmPins
        /\ op.value \in 0..UINT8_MAX) =>
        LET v16 == (op.value * UINT16_MAX) \div UINT8_MAX
        IN  /\ v16 <= UINT16_MAX
            /\ bus = <<WEvent(i2caddr, <<SEESAW_TIMER_BASE, SEESAW_TIMER_PWM,
                                         PwmIndex(op.pin), v16 \div 256, v16 % 256>>)>>
            /\ bus = analogWrite(Handle(Seed, 0, 0), op.pin, v16, 16).bus

\* Full scale on PWM channel 1: payload 01 FF FF.
C10_Witness ==
    /\ op.name = "analogWrite" /\ op.width = 8 /\ op.value = UINT8_MAX
    /\ op.pin = PWM_1_PIN
    /\ bus = <<[k |-> "W", addr |-> i2caddr, n |-> 5,
                bytes |-> <<8, 1, 1, 255, 255>>]>>

---------------------------------------------------------------------------
(* The status words: getOptions and getVersion over the device's answers.  *)

\* The bytes a status register may hold.
StatusBytes == {0, 18, 52, 86, 120, 128, UINT8_MAX}
StatusWords == [1..4 -> StatusBytes]

GetOptionsFrom(words) ==
    \E word \in words, sh \in Shorts :
        Return(getOptions([Handle(Seed, sh, 0) EXCEPT !.data = word]),
               Call("getOptions"))

GetVersionFrom(words) ==
    \E word \in words, sh \in Shorts :
        Return(getVersion([Handle(Seed, sh, 0) EXCEPT !.data = word]),
               Call("getVersion"))

\* One status read on a newly constructed handle.
NextStatus ==
    /\ op.name = "none"
    /\ \/ GetOptionsFrom(StatusWords)
       \/ GetVersionFrom(StatusWords)

SpecStatus == InitRead /\ [][NextStatus]_vars

\* The bits of b0*2^24 + b1*2^16 + b2*2^8 + b3: bit i is bit (i mod 8) of
\* the byte b[3 - i div 8].
WordBits(b) == {i \in 0..31 : (b[4 - (i \div 8)] \div 2^(i % 8)) % 2 = 1}

\* C11: getOptions and getVersion each make one register read of exactly 4
\* bytes from their status register (options resp. version) and, for every
\* 4 bytes b0..b3 the device returns, return b0*2^24 + b1*2^16 + b2*2^8 + b3
\* (compared bit by bit, and as a number where it is below 2^31).
C11_StatusWord ==
    op.name \in {"getOptions", "getVersion"} =>
        /\ Len(bus) = 3
        /\ bus[1] = AddressWrite(SEESAW_STATUS_BASE,
                                 IF op.name = "getOptions" THEN SEESAW_STATUS_OPTIONS
                                 ELSE SEESAW_STATUS_VERSION)
        /\ bus[3].k = "R" /\ bus[3].n = 4
        /\ AllDelivered =>
               LET b == bus[3].bytes
               IN  /\ retmask = WordBits(b)
                   /\ b[1] < 128 =>
                          SumBits(retmask) =
                              b[1] * 2^24 + b[2] * 2^16 + b[3] * 2^8 + b[4]

\* The device answers 12 34 56 78 and getVersion returns 0x12345678.
C11_Witness ==
    /\ op.name = "getVersion" /\ AllDelivered
    /\ bus[3].bytes = <<18, 52, 86, 120>>
    /\ SumBits(retmask) = 305419896

---------------------------------------------------------------------------
(* Transport faults.                                                       *)

\* C12 as claimed: whenever the transport delivers fewer bytes than requested
\* for some chunk of a register read, the call ends failed for its caller,
\* and a read that returns normally hands back only bytes received from the
\* device.
C12_NoPartialResult ==
    op.name = "read" =>
        /\ ~AllDelivered => outcome = "failed"
        /\ outcome = "returned" => rbuf = Concat(Requests)

---------------------------------------------------------------------------
(* The serial stream: the character and the string form of write.         *)

\* A string of n letters.
Letters(n) == [j \in 1..n |-> 65 + (j % 26)]

\* Strings up to 4 characters over three letters, and strings around the
\* size of the transmit buffer.
ShortStrings == UNION {[1..n -> {72, 105, 33}] : n \in 0..4}
LongStrings == {Letters(n) : n \in {STR_BUF_SIZE - 1, STR_BUF_SIZE,
                                    STR_BUF_SIZE + 1, STR_BUF_SIZE + 8}}
Overflows == {"intact", "crash", <<"clobbered", 0>>, <<"clobbered", UINT8_MAX>>}

NextSerial ==
    \/ WriteStr(ShortStrings \cup LongStrings, Overflows)
    \/ WriteChar({65, UINT8_MAX}, {0, 1})
    \/ UartSetBaud({9600, 115200})
    \/ ReadSercomData(Sercoms)

SpecSerial == InitRead /\ [][NextSerial]_vars

\* The write transactions of the last operation, acknowledged or not.
Transmissions == SelectSeq(bus, LAMBDA e : e.k \in {"W", "N"})

\* What the string form of write does with a string that fits its buffer.
StringSent ==
    /\ bus = <<WEvent(i2caddr, <<SEESAW_SERCOM0_BASE, SEESAW_SERCOM_DATA>> \o op.str)>>
    /\ ret = Len(op.str)
    /\ outcome = "returned"

\* C13 as claimed: for every string, also one longer than 32 characters,
\* write(str) never stores at an index >= 32 of its 32-byte buffer
\* and never sends a payload longer than 32 bytes; for a string of at most
\* 32 characters it emits exactly one write to the SERCOM0 data register
\* with the string's bytes in order as payload and returns the length.
C13_StringWrite ==
    op.name = "write_str" =>
        /\ Len(rbuf) <= STR_BUF_SIZE
        /\ \A i \in 1..Len(Transmissions) : Transmissions[i].n - 2 <= STR_BUF_SIZE
        /\ Len(op.str) <= STR_BUF_SIZE => StringSent

\* Operations on a transport that leaves one write transaction (the
\* nack-th of the call, 0 = none) unacknowledged.
Nacked(nack) == [Handle(Seed, 0, 0) EXCEPT !.nackAt = nack]

WriteFault(regs, payloads, nacks) ==
    \E reg \in regs, buf \in payloads, nack \in nacks :
        Return(Void(write(Nacked(nack), reg[1], reg[2], buf, Len(buf))),
               [name |-> "write", old |-> i2caddr, regHigh |-> reg[1],
                regLow |-> reg[2], buf |-> buf])

WriteEmptyFault(regs, nacks) ==
    \E reg \in regs, nack \in nacks :
        Return(Void(writeEmpty(Nacked(nack), reg[1], reg[2])),
               [name |-> "writeEmpty", old |-> i2caddr, regHigh |-> reg[1],
                regLow |-> reg[2]])

PinModeBulkFault(masks, modes, nacks) ==
    \E pins \in masks, mode \in modes, nack \in nacks :
        Return(Void(pinModeBulk(Nacked(nack), pins, mode)),
               [name |-> "pinModeBulk", old |-> i2caddr, pins |-> pins, mode |-> mode])

BeginFault(addrs, nacks) ==
    \E addr \in addrs, nack \in nacks :
        Return(begin(Nacked(nack), addr),
               [name |-> "begin", old |-> i2caddr, addr |-> addr])

FaultRegs == {<<SEESAW_STATUS_BASE, SEESAW_STATUS_VERSION>>,
              <<SEESAW_EEPROM_BASE, SEESAW_EEPROM_I2C_ADDR>>}
FaultPayloads == UNION {[1..n -> {0, 7, UINT8_MAX}] : n \in 0..2}

NextFault ==
    \/ WriteFault(FaultRegs, FaultPayloads, {0, 1})
    \/ WriteEmptyFault(FaultRegs, {0, 1})
    \/ PinModeBulkFault(Masks, Modes, 0..3)
    \/ BeginFault(Addrs, 0..2)

SpecFault == Init /\ [][NextFault]_vars

\* The write transactions an operation issues when every one is acknowledged.
FixedSequence ==
    CASE op.name = "write" ->
           <<WEvent(i2caddr, <<op.regHigh, op.regLow>> \o op.buf)>>
      [] op.name = "writeEmpty" ->
           <<WEvent(i2caddr, <<op.regHigh, op.regLow>>)>>
      [] op.name = "pinModeBulk" ->
           (CASE op.mode = INPUT_PULLUP ->
                   <<GpioWrite(SEESAW_GPIO_DIRCLR_BULK, op.pins),
                     GpioWrite(SEESAW_GPIO_PULLENSET, op.pins),
                     GpioWrite(SEESAW_GPIO_BULK_SET, op.pins)>>
              [] op.mode = OUTPUT -> <<GpioWrite(SEESAW_GPIO_DIRSET_BULK, op.pins)>>
              [] op.mode = INPUT -> <<GpioWrite(SEESAW_GPIO_DIRCLR_BULK, op.pins)>>
              [] OTHER -> <<>>)
      [] op.name = "begin" ->
           <<WEvent(i2caddr, <<SEESAW_STATUS_BASE, SEESAW_STATUS_SWRST, RESET_VALUE>>),
             WEvent(i2caddr, <<SEESAW_STATUS_BASE, SEESAW_STATUS_HW_ID>>)>>
      [] OTHER -> <<>>

\* Each transaction of the fixed sequence is issued once, acknowledged or not.
IssuedOnce ==
    op.name # "none" =>
        [i \in 1..Len(Transmissions) |-> [Transmissions[i] EXCEPT !.k = "W"]]
            = FixedSequence

\* C14 as claimed: when the device does not acknowledge a write transaction,
\* the operation ends failed for its caller; and no transaction is issued
\* again: each operation emits its fixed sequence of transactions once,
\* whatever the transport's outcomes.
C14_FaultSurfaced ==
    /\ (\E i \in 1..Len(bus) : bus[i].k = "N") => outcome = "failed"
    /\ IssuedOnce

---------------------------------------------------------------------------
(* The ADC over the device's answers.                                      *)

\* Answers of the device to an ADC read: byte pairs, and runs of up to 3 pairs.
AdcHigh == {0, 1, 3, 4, UINT8_MAX}
AdcLow == {0, 2, UINT8_MAX}
AdcPairs == {<<hi, lo>> : hi \in AdcHigh, lo \in AdcLow}
AdcRuns == UNION {[1..(2 * n) -> {0, 1, 2}] : n \in 0..3}
\* Contents of the caller's buffer before analogReadBulk, and of the memory
\* behind it.
AdcWords == {0, 4660, UINT16_MAX}
AdcBuffers == UNION {[1..n -> AdcWords] : n \in 0..3}

\* One ADC operation on a newly constructed handle.
NextAdc ==
    /\ op.name = "none"
    /\ \/ AnalogReadFrom(MappedAdcPins, AdcPairs)
       \/ AnalogReadBulk(0..3, AdcBuffers, AdcRuns, AdcWords)

SpecAdc == InitRead /\ [][NextAdc]_vars

\* C15 as claimed: analogReadBulk(buffer, count) reads count*2 bytes from
\* the ADC channel-offset register and sets buffer[i] to
\* raw[2i]*256 + raw[2i+1] for every i below count, raw being the bytes
\* received, whatever the buffer held before.
C15_BulkPairs ==
    op.name = "analogReadBulk" =>
        /\ \A i \in 1..Len(Writes) :
               Writes[i] = AddressWrite(SEESAW_ADC_BASE, SEESAW_ADC_CHANNEL_OFFSET)
        /\ Len(Requests) = NChunks(2 * op.num)
        /\ \A k \in 1..Len(Requests) : Requests[k].n = ChunkSize(2 * op.num, k)
        /\ Len(rbuf) = op.num
        /\ AllDelivered =>
               \A i \in 0..(op.num - 1) :
                   rbuf[i + 1] = Concat(Requests)[2 * i + 1] * 256
                                     + Concat(Requests)[2 * i + 2]

\* The largest result of a 10-bit conversion.
ADC_MAX == 1023

\* C16 as claimed: for every mapped ADC pin and every pair of bytes the
\* device returns, analogRead(pin) returns a value in 0..1023.
C16_AdcRange ==
    (op.name = "analogRead" /\ op.pin \in MappedAdcPins /\ AllDelivered) =>
        ret \in 0..ADC_MAX

---------------------------------------------------------------------------
(* Properties of the bulk pin mask.                                        *)

\* The mask argument of the last operation: the bulk mask, or the one bit of
\* a single-pin operation.
OpMask == IF op.name \in {"pinMode", "digitalWrite"} THEN {op.pin} ELSE op.pins

\* C17: every write of pinModeBulk, digitalWriteBulk, setGPIOInterrupts,
\* pinMode and digitalWrite goes to the GPIO module with a payload of
\* exactly 4 bytes, the 32-bit mask in big-endian order (payload byte 0 =
\* bits 31..24, byte 3 = bits 7..0); setGPIOInterrupts writes the
\* interrupt-enable-set register when its flag is set and the
\* interrupt-enable-clear register otherwise, digitalWriteBulk and
\* digitalWrite the bulk-set register for a non-zero value and the
\* bulk-clear register for 0.
C17_BulkMask ==
    /\ op.name \in {"pinModeBulk", "pinMode", "digitalWriteBulk", "digitalWrite",
                    "setGPIOInterrupts"} =>
           \A i \in 1..Len(bus) :
               /\ bus[i].k = "W" /\ bus[i].n = 6
               /\ bus[i].bytes[1] = SEESAW_GPIO_BASE
               /\ \A k \in 0..3 :
                      bus[i].bytes[3 + k] =
                          SumBits({q - 8 * (3 - k) :
                                     q \in OpMask \cap ((8 * (3 - k))..(8 * (3 - k) + 7))})
    /\ op.name = "setGPIOInterrupts" =>
           bus = <<GpioWrite(IF op.enabled THEN SEESAW_GPIO_INTENSET
                             ELSE SEESAW_GPIO_INTENCLR, op.pins)>>
    /\ op.name \in {"digitalWriteBulk", "digitalWrite"} =>
           bus = <<GpioWrite(IF op.value # 0 THEN SEESAW_GPIO_BULK_SET
                             ELSE SEESAW_GPIO_BULK_CLR, OpMask)>>

\* Interrupts disabled on pins 0 and 31: payload 80 00 00 01 to the clear
\* register.
C17_Witness ==
    /\ op.name = "setGPIOInterrupts" /\ op.pins = {0, 31} /\ ~op.enabled
    /\ bus = <<[k |-> "W", addr |-> i2caddr, n |-> 6,
                bytes |-> <<1, 9, 128, 0, 0, 1>>]>>

---------------------------------------------------------------------------
(* The per-pin configuration on a device with direction and pull-enable    *)
(* registers.                                                              *)

InitPins ==
    /\ i2caddr = 0
    /\ sercom_inten = 0
    /\ dev = [hwid |-> SEESAW_HW_ID_CODE, gpio |-> {}, dir |-> {}, pullen |-> {}]
    /\ bus = <<>>
    /\ op = [name |-> "none"]
    /\ prev = [name |-> "other"]
    /\ ret = 0
    /\ retmask = {}
    /\ rbuf = <<>>
    /\ calls = <<>>
    /\ outcome = "returned"
    /\ lastmode = [p \in 0..31 |-> "unconfigured"]

PinMasks == {{9}, {3, 9}, 0..31}
PinModes == {INPUT, OUTPUT, INPUT_PULLUP}

NextPins ==
    \/ PinModeBulk(PinMasks, PinModes)
    \/ PinMode({9}, PinModes)
    \/ DigitalWrite({9}, {0, 1})
    \/ DigitalRead({9})
    \/ SetGPIOInterrupts({{3, 9}})
    \/ AnalogRead({ADC_INPUT_1_PIN})
    \/ AnalogWrite({PWM_1_PIN}, {UINT8_MAX}, {8})
    \/ EnableSercomDataRdyInterrupt({0})
    \/ ReadSercomData({0})
    \/ EepromWrite8({0}, {1})
    \/ EepromRead8({0})
    \/ SoftReset

SpecPins == InitPins /\ [][NextPins]_vars

\* The device-side configuration of pin p is the one of its state.
ConfiguredAs(p, state) ==
    CASE state = "output" -> p \in dev.dir
      [] state = "input-with-pullup" -> p \notin dev.dir /\ p \in dev.pullen
      [] OTHER -> p \notin dev.dir /\ p \notin dev.pullen

\* No write of the last operation goes to a direction or pull-enable register.
NoConfigWrite ==
    \A i \in 1..Len(bus) :
        bus[i].k = "W" =>
            ~(/\ bus[i].bytes[1] = SEESAW_GPIO_BASE
              /\ bus[i].bytes[2] \in {SEESAW_GPIO_DIRSET_BULK, SEESAW_GPIO_DIRCLR_BULK,
                                      SEESAW_GPIO_PULLENSET})

\* C18 as claimed: on a device that applies direction-set, direction-clear,
\* pull-enable-set and bulk-set writes to per-pin registers, after any
\* sequence of calls the direction bit and the pull-enable bit of every pin
\* are those of the state (unconfigured, input, input-with-pullup, output)
\* selected by the most recent pinMode / pinModeBulk call that named the
\* pin, pins a call does not name keeping their state; and no operation
\* other than pinMode and pinModeBulk writes a direction or pull-enable
\* register.
C18_PinStates ==
    /\ \A p \in 0..31 : ConfiguredAs(p, lastmode[p])
    /\ op.name \notin {"none", "pinMode", "pinModeBulk"} => NoConfigWrite

---------------------------------------------------------------------------
(* Order of the steps of begin and of analogRead.                          *)

\* C19: begin(addr) takes over addr as the handle's address, initialises the
\* transport, issues one write of the single byte 0xFF to the reset function
\* of the status module, waits the 500 ms settle delay, and only then arms
\* and reads 1 byte from the hardware-identity register: these six entries,
\* in this order, are all the call puts on the transport, and every
\* transaction of them is sent to addr.
C19_BeginOrder ==
    op.name = "begin" =>
        /\ i2caddr = op.addr
        /\ Len(bus) = 6
        /\ bus[1] = IEvent
        /\ bus[2] = WEvent(op.addr, <<SEESAW_STATUS_BASE, SEESAW_STATUS_SWRST,
                                      RESET_VALUE>>)
        /\ bus[3] = DEvent(BEGIN_DELAY_MS)
        /\ bus[4] = WEvent(op.addr, <<SEESAW_STATUS_BASE, SEESAW_STATUS_HW_ID>>)
        /\ bus[5] = UEvent(0)
        /\ bus[6].k = "R" /\ bus[6].addr = op.addr /\ bus[6].n = 1

\* begin(74) on a handle that was at 73.
C19_Witness ==
    /\ op.name = "begin" /\ op.old = 73 /\ op.addr = 74
    /\ bus[2] = [k |-> "W", addr |-> 74, n |-> 3, bytes |-> <<0, 127, 255>>]
    /\ bus[3].k = "D" /\ bus[3].n = 500
    /\ bus[4].bytes = <<0, 1>> /\ bus[6].k = "R"

\* The ADC channel index of a mapped pin.
AdcIndex(pin) ==
    CHOOSE c \in 0..3 :
        <<ADC_INPUT_0_PIN, ADC_INPUT_1_PIN, ADC_INPUT_2_PIN, ADC_INPUT_3_PIN>>[c + 1] = pin

\* C20: for every mapped ADC pin, with channel index c, analogRead puts on
\* the transport, in this order: the address-only write to (ADC module,
\* channel-offset + c), the post-address delay of 500 microseconds (not
\* zero), one read request of exactly 2 bytes, and the delay of 1 ms; it
\* returns b0*256 + b1 of the two bytes received.  In every register read
\* each read request has the post-address delay right before it and the
\* address write right before that, and each such delay stands between an
\* address write and a read request.
C20_AdcOrder ==
    /\ (op.name = "analogRead" /\ op.pin \in MappedAdcPins) =>
           /\ Len(bus) = 4
           /\ bus[1] = AddressWrite(SEESAW_ADC_BASE,
                                    SEESAW_ADC_CHANNEL_OFFSET + AdcIndex(op.pin))
           /\ bus[2] = UEvent(ADC_DELAY_US) /\ bus[2].n > 0
           /\ bus[3].k = "R" /\ bus[3].n = 2
           /\ bus[4] = DEvent(ADC_DELAY_MS)
           /\ AllDelivered => ret = bus[3].bytes[1] * 256 + bus[3].bytes[2]
    /\ \A i \in 1..Len(bus) :
           /\ bus[i].k = "R" =>
                  /\ i >= 3
                  /\ bus[i - 1].k = "U"
                  /\ bus[i - 2].k = "W" /\ bus[i - 2].n = 2
           /\ bus[i].k = "U" =>
                  /\ 1 < i /\ i < Len(bus)
                  /\ bus[i - 1].k = "W" /\ bus[i + 1].k = "R"

\* analogRead on the pin of channel 3, answered 03 FF: 1023.
C20_Witness ==
    /\ op.name = "analogRead" /\ op.pin = ADC_INPUT_3_PIN
    /\ bus = <<[k |-> "W", addr |-> i2caddr, n |-> 2, bytes |-> <<9, 10>>],
               [k |-> "U", addr |-> 0, n |-> 500, bytes |-> <<>>],
               [k |-> "R", addr |-> i2caddr, n |-> 2, bytes |-> <<3, 255>>],
               [k |-> "D", addr |-> 0, n |-> 1, bytes |-> <<>>]>>
    /\ ret = 1023

---------------------------------------------------------------------------
(* The serial modules: one cached interrupt-enable mask, one register per  *)
(* module.                                                                 *)

\* A newly constructed handle in front of a device that keeps the
\* interrupt-enable register of each serial module; none written yet.
InitSercom ==
    /\ i2caddr = 0
    /\ sercom_inten = 0
    /\ dev = [hwid |-> SEESAW_HW_ID_CODE, gpio |-> {}, inten |-> [x \in {} |-> 0]]
    /\ bus = <<>>
    /\ op = [name |-> "none"]
    /\ prev = [name |-> "other"]
    /\ ret = 0
    /\ retmask = {}
    /\ rbuf = <<>>
    /\ calls = <<>>
    /\ outcome = "returned"
    /\ lastmode = [p \in 0..31 |-> "unconfigured"]

SercomIndices == {0, 1, 2}

\* Sequences of enable and disable calls on any of the indices, with reads
\* of the data register in between.
NextSercom ==
    \/ EnableSercomDataRdyInterrupt(SercomIndices)
    \/ DisableSercomDataRdyInterrupt(SercomIndices)
    \/ ReadSercomData(SercomIndices)

SpecSercom == InitSercom /\ [][NextSercom]_vars

\* The data-ready bit held by the interrupt-enable register of module m.
RemoteDataRdy(m) == dev.inten[m] % 2

\* C21: after any sequence of enableSercomDataRdyInterrupt and
\* disableSercomDataRdyInterrupt calls on possibly different sercom indices,
\* the data-ready bit of the cached interrupt-enable mask equals the
\* data-ready bit most recently written to the interrupt-enable register of
\* every sercom index that has been written.
C21_CacheConsistent ==
    HasSercomRegs(dev) =>
        \A m \in DOMAIN dev.inten : RemoteDataRdy(m) = sercom_inten % 2

\* The same for the register of the index the last call named alone: the
\* byte it holds is the cached mask.
C21_LastWritten ==
    (HasSercomRegs(dev) /\ op.name \in {"enableSercomDataRdyInterrupt",
                                         "disableSercomDataRdyInterrupt"}) =>
        /\ SEESAW_SERCOM0_BASE + op.sercom \in DOMAIN dev.inten
        /\ dev.inten[SEESAW_SERCOM0_BASE + op.sercom] = sercom_inten

---------------------------------------------------------------------------
(* The chunk loop of read and its 8-bit counters.                          *)

\* The buffer indices (0-based) stored into by iteration k of the last read.
StoredAt(k) == op.steps[k].pos..(op.steps[k].pos + op.steps[k].n - 1)

\* C22: for every num in 0..255 the chunk loop of read terminates: the
\* position counter strictly increases on every iteration, never exceeds num
\* and never wraps, no buffer index >= num is written, and for num = 0 the
\* call returns without any bus transaction (no address write, no read
\* request).
C22_ReadTerminates ==
    op.name = "read" =>
        /\ outcome = "returned"
        /\ Len(op.steps) = NChunks(op.num)
        /\ \A k \in 1..Len(op.steps) :
               /\ op.steps[k].pos = (IF k = 1 THEN 0 ELSE op.steps[k - 1].next)
               /\ op.steps[k].next > op.steps[k].pos
               /\ op.steps[k].next = op.steps[k].pos + op.steps[k].n
               /\ op.steps[k].next <= op.num
               /\ \A j \in StoredAt(k) : j < op.num
        /\ op.steps # <<>> => op.steps[Len(op.steps)].next = op.num
        /\ Len(rbuf) = op.num
        /\ op.num = 0 => bus = <<>> /\ calls = <<>>

\* A read of 255 bytes: eight iterations, the last from position 224 to 255.
C22_Witness ==
    /\ op.name = "read" /\ op.num = UINT8_MAX
    /\ Len(op.steps) = 8
    /\ op.steps[8].pos = 7 * CHUNK /\ op.steps[8].n = CHUNK - 1
    /\ op.steps[8].next = UINT8_MAX
    /\ Len(Requests) = 8 /\ Len(rbuf) = UINT8_MAX

===========================================================================
